---- MODULE Spec2Model ----
(***************************************************************************)
(* Verification model of the mastery-tracking and learning-path engine     *)
(* (class MathLearningAssistant, src/src/lib/gapAnalysis.ts lines 1-616)   *)
(* over the shipped topic catalog (src/src/lib/data.ts).                   *)
(*                                                                         *)
(* Number representation.  The source computes in IEEE doubles.  The       *)
(* model keeps, for every stored mastery and every prerequisite gap, the   *)
(* double itself (sums, differences and comparisons are those of IEEE      *)
(* arithmetic, round to nearest even) next to the decimal it stands for.   *)
(* The quantities derived from them by multiplication and division are     *)
(* computed in exact decimal arithmetic:                                   *)
(*   - requiredMastery, impactScore, decimal mastery and gap: hundredths   *)
(*   - prerequisite weight: integer tenths                                 *)
(*   - readiness / totalReadinessImpact: exact fractions num/den           *)
(*   - confidence: integer multiples of 1/ConfUnit, or NaN                 *)
(*   - timestamps: whole days (Date.now() is constant within one call)     *)
(* A map entry that is absent (JavaScript undefined) is the value Undef.   *)
(***************************************************************************)
EXTENDS Integers, Sequences, FiniteSets, TLC

\* ------------------------------------------------------------------ bounds
\* number of processResponse calls explored from the constructed engine
MaxResponses == 8
\* number of correct single-topic responses replayed per topic in SpecPath
MaxReplay == 10
\* number of prerequisites a topic of a SpecWalk catalog names at most
MaxGraphPrereqs == 2

\* --------------------------------------------------------------- constants
Undef == -1
StartDay == 1
DefaultEstimatedTime == 30
ConfUnit == 6000

\* SPACED_REPETITION_SCHEDULE, in days
SPACED_REPETITION_SCHEDULE == <<1, 3, 7, 14, 30, 60, 90>>

\* MASTERY_THRESHOLDS, in hundredths
MASTERY_THRESHOLDS == [review |-> 60, easy |-> 80, hard |-> 40]

\* ------------------------------------------------------------ data.ts
Prereq(t, w, r) == [topicId |-> t, weight |-> w, requiredMastery |-> r]

\* export const topics: Topic[]
topics ==
  << [id |-> "basic_arithmetic", prerequisites |-> << >>,
      difficulty |-> "easy", impactScore |-> 90, estimatedTime |-> 30],
     [id |-> "fractions",
      prerequisites |-> << Prereq("basic_arithmetic", 8, 70) >>,
      difficulty |-> "easy", impactScore |-> 85, estimatedTime |-> 45],
     [id |-> "basic_algebra",
      prerequisites |-> << Prereq("basic_arithmetic", 9, 80),
                           Prereq("fractions", 7, 60) >>,
      difficulty |-> "medium", impactScore |-> 95, estimatedTime |-> 60],
     [id |-> "geometry",
      prerequisites |-> << Prereq("basic_arithmetic", 7, 60),
                           Prereq("fractions", 6, 50) >>,
      difficulty |-> "medium", impactScore |-> 75, estimatedTime |-> 90],
     [id |-> "intermediate_algebra",
      prerequisites |-> << Prereq("basic_algebra", 9, 80),
                           Prereq("geometry", 5, 40) >>,
      difficulty |-> "hard", impactScore |-> 85, estimatedTime |-> 120],
     [id |-> "word_problems",
      prerequisites |-> << Prereq("basic_arithmetic", 8, 70),
                           Prereq("basic_algebra", 7, 60) >>,
      difficulty |-> "hard", impactScore |-> 80, estimatedTime |-> 90] >>

TopicIds == { topics[i].id : i \in 1..Len(topics) }

\* an id that is not in the catalog
UnknownId == "unknown_topic"

AllIds == TopicIds \cup {UnknownId}

\* export function getTopicById(id): Topic | undefined
Null == [id |-> "null"]

getTopicById(id) ==
  IF id \in TopicIds
    THEN topics[CHOOSE i \in 1..Len(topics) :
                   /\ topics[i].id = id
                   /\ \A j \in 1..(i-1) : topics[j].id # id]
    ELSE Null

\* Problem objects handed to processResponse: the shipped problems add1 and
\* word4, and a problem that names a topic twice, names it again under
\* relatedTopics, and names an id that is not in the catalog.
Problem(i, req, rel, d) ==
  [id |-> i, requiredTopics |-> req, relatedTopics |-> rel, difficulty |-> d]

problems ==
  << Problem("add1", <<"basic_arithmetic">>, << >>, "easy"),
     Problem("word4", <<"word_problems", "intermediate_algebra",
                        "basic_algebra">>, << >>, "hard"),
     Problem("rel1", <<"fractions", "fractions", UnknownId>>,
             <<"fractions", "basic_arithmetic", UnknownId>>, "medium") >>

\* export const problems: Problem[] (four ids occur twice in the file)
catalogProblems ==
  << Problem("add1", <<"basic_arithmetic">>, << >>, "easy"),
     Problem("add2", <<"basic_arithmetic">>, << >>, "easy"),
     Problem("sub1", <<"basic_arithmetic">>, << >>, "easy"),
     Problem("mult1", <<"basic_arithmetic">>, << >>, "easy"),
     Problem("div1", <<"basic_arithmetic">>, << >>, "easy"),
     Problem("arith1", <<"basic_arithmetic">>, << >>, "medium"),
     Problem("arith2", <<"basic_arithmetic">>, << >>, "medium"),
     Problem("frac1", <<"fractions">>, << >>, "easy"),
     Problem("frac2", <<"fractions">>, << >>, "easy"),
     Problem("frac2a", <<"fractions">>, << >>, "easy"),
     Problem("frac3", <<"fractions">>, << >>, "medium"),
     Problem("frac4", <<"fractions">>, << >>, "medium"),
     Problem("frac5", <<"fractions">>, << >>, "medium"),
     Problem("alg1", <<"basic_algebra">>, << >>, "easy"),
     Problem("alg2", <<"basic_algebra">>, << >>, "easy"),
     Problem("alg3", <<"basic_algebra">>, << >>, "medium"),
     Problem("alg4", <<"basic_algebra">>, << >>, "medium"),
     Problem("geo1", <<"geometry">>, << >>, "easy"),
     Problem("geo2", <<"geometry">>, << >>, "easy"),
     Problem("geo3", <<"geometry">>, << >>, "medium"),
     Problem("geo4", <<"geometry">>, << >>, "medium"),
     Problem("word1", <<"word_problems">>, << >>, "medium"),
     Problem("word2", <<"word_problems">>, << >>, "medium"),
     Problem("ialg1", <<"intermediate_algebra">>, << >>, "hard"),
     Problem("ialg2", <<"intermediate_algebra">>, << >>, "hard"),
     Problem("ialg3", <<"intermediate_algebra">>, << >>, "hard"),
     Problem("word3", <<"word_problems", "intermediate_algebra">>, << >>, "hard"),
     Problem("word4", <<"word_problems", "intermediate_algebra", "basic_algebra">>, << >>, "hard"),
     Problem("word5", <<"word_problems", "basic_algebra">>, << >>, "hard"),
     Problem("frac3", <<"fractions">>, << >>, "medium"),
     Problem("frac4", <<"fractions">>, << >>, "medium"),
     Problem("geo3", <<"geometry">>, << >>, "easy"),
     Problem("geo4", <<"geometry">>, << >>, "easy") >>

\* ------------------------------------------------------------------ state
VARIABLES
  topicMastery,        \* topicId -> mastery value, Absent when absent
  topicLastPracticed,  \* topicId -> day, Undef when absent
  topicNextReview,     \* topicId -> day, Undef when absent
  topicReviewCount,    \* topicId -> count, Undef when absent
  reviewKeys,          \* the keys of topicNextReview, in insertion order
  userResponses,       \* number of recorded responses
  now,                 \* Date.now(), in days
  lastCall,            \* the most recent call on the engine and its result
  earlierReadiness     \* the latest analyzeTopicReadiness call and its result
                       \* since the last processResponse, and whether it
                       \* repeated the call before it

vars == <<topicMastery, topicLastPracticed, topicNextReview,
          topicReviewCount, reviewKeys, userResponses, now, lastCall,
          earlierReadiness>>

store == <<topicMastery, topicLastPracticed, topicNextReview,
           topicReviewCount, reviewKeys>>

\* ---------------------------------------------------------------- helpers
Min(a, b) == IF a < b THEN a ELSE b
Max(a, b) == IF a > b THEN a ELSE b

InSeq(x, seq) == \E i \in 1..Len(seq) : seq[i] = x

\* statement sequencing: the value of v is computed first, then F is
\* applied to it
Then(v, F(_)) == CHOOSE r \in { F(x) : x \in {v} } : TRUE

\* ------------------------------------------------- IEEE double arithmetic
\* A double d with 0 <= d < 2 is the pair <<hi, lo>> with
\* d = (hi * 2^30 + lo) * 2^-59 and 0 <= lo < 2^30.  The pair is a double
\* when it has at most 53 significant bits.
Limb == 1073741824

\* the number literals of the source as doubles, by their value in hundredths
Double(h) ==
  CASE h = 0   -> <<0, 0>>
    [] h = 1   -> <<5368709, 128849019>>     \* 0x1.47ae147ae147bp-7
    [] h = 2   -> <<10737418, 257698038>>    \* 0x1.47ae147ae147bp-6
    [] h = 5   -> <<26843545, 644245096>>    \* 0x1.999999999999ap-5
    [] h = 10  -> <<53687091, 214748368>>    \* 0x1.999999999999ap-4
    [] h = 30  -> <<161061273, 644245088>>   \* 0x1.3333333333333p-2
    [] h = 40  -> <<214748364, 858993472>>   \* 0x1.999999999999ap-2
    [] h = 50  -> <<268435456, 0>>           \* 0x1p-1
    [] h = 60  -> <<322122547, 214748352>>   \* 0x1.3333333333333p-1
    [] h = 70  -> <<375809638, 429496704>>   \* 0x1.6666666666666p-1
    [] h = 80  -> <<429496729, 644245120>>   \* 0x1.999999999999ap-1
    [] h = 90  -> <<483183820, 858993472>>   \* 0x1.ccccccccccccdp-1
    [] h = 100 -> <<536870912, 0>>           \* 0x1p+0

FlLess(x, y) == x[1] < y[1] \/ (x[1] = y[1] /\ x[2] < y[2])

\* the number of low bits of lo that do not fit the 53-bit significand
RECURSIVE DroppedBits(_)
DroppedBits(hi) == IF hi < 8388608 THEN 0 ELSE 1 + DroppedBits(hi \div 2)

RECURSIVE Pow2(_)
Pow2(n) == IF n = 0 THEN 1 ELSE 2 * Pow2(n - 1)

\* round the exact value hi * 2^30 + lo (lo < 2^31) to the nearest double,
\* ties to even
FlRound(hi, lo) ==
  LET h1 == hi + (lo \div Limb)
      l1 == lo % Limb
      unit == Pow2(DroppedBits(h1))
      q == l1 \div unit
      r == l1 % unit
      up == 2 * r > unit \/ (2 * r = unit /\ q % 2 = 1)
      l2 == (IF up THEN q + 1 ELSE q) * unit
  IN  << h1 + (l2 \div Limb), l2 % Limb >>

\* x + y in double arithmetic
FlAdd(x, y) == FlRound(x[1] + y[1], x[2] + y[2])

\* x - y in double arithmetic, for x >= y
FlSub(x, y) ==
  IF x[2] >= y[2] THEN FlRound(x[1] - y[1], x[2] - y[2])
  ELSE FlRound(x[1] - y[1] - 1, x[2] + Limb - y[2])

\* ------------------------------------------------------ mastery values
\* A mastery value carries the double the engine stores (bin) and the
\* decimal number that the double stands for, in hundredths (dec).
\* Comparisons against thresholds are made on the double, as the engine
\* makes them; quantities derived by multiplication and division are
\* computed exactly from the decimal.
Mastery(d, b) == [dec |-> d, bin |-> b]

Zero == Mastery(0, Double(0))
One == Mastery(100, Double(100))

\* the entry of a topic id that topicMastery does not hold
Absent == Mastery(Undef, Double(0))

\* m >= h/100, m < h/100, m > h/100 for a number literal h/100
AtLeast(m, h) == ~FlLess(m.bin, Double(h))
Below(m, h) == FlLess(m.bin, Double(h))
Above(m, h) == FlLess(Double(h), m.bin)

\* value || 0 on a mastery entry
OrZero(v) == IF v = Absent THEN Zero ELSE v

\* value || 0 on a count or a timestamp
OrZeroInt(v) == IF v = Undef THEN 0 ELSE v

\* m + change for a change of c hundredths; neg marks a negative sum
Plus(m, c) ==
  IF c >= 0
    THEN [dec |-> m.dec + c, bin |-> FlAdd(m.bin, Double(c)), neg |-> FALSE]
  ELSE IF FlLess(m.bin, Double(-c))
    THEN [dec |-> m.dec + c, bin |-> Double(0), neg |-> TRUE]
    ELSE [dec |-> m.dec + c, bin |-> FlSub(m.bin, Double(-c)), neg |-> FALSE]

\* the clamp without its upper limit
Clamp01NoCap(x) == IF x.neg THEN Zero ELSE Mastery(Max(0, x.dec), x.bin)

\* Math.max(0, Math.min(1, x))
Clamp01(x) ==
  IF x.neg THEN Zero
  ELSE IF FlLess(One.bin, x.bin) THEN One
  ELSE Mastery(Max(0, Min(100, x.dec)), x.bin)

\* --------------------------------------------------- the engine's store
\* constructor(): every catalog topic starts with mastery 0
NewStore ==
  [tm |-> [t \in AllIds |-> IF t \in TopicIds THEN Zero ELSE Absent],
   lp |-> [t \in AllIds |-> Undef],
   nr |-> [t \in AllIds |-> Undef],
   rc |-> [t \in AllIds |-> Undef],
   keys |-> << >>]

\* this.topicNextReview[topicId] = day; a new key goes behind the others
SetNextReview(s, topicId, day) ==
  [s EXCEPT !.nr[topicId] = day,
            !.keys = IF InSeq(topicId, s.keys) THEN s.keys
                     ELSE Append(s.keys, topicId)]

\* getTopicMastery(topicId)
getTopicMastery(tm, topicId) == OrZero(tm[topicId])

\* updateSpacedRepetitionSchedule(topicId, mastery, isCorrect)
updateSpacedRepetitionSchedule(s, topicId, mastery, isCorrect, today) ==
  LET reviewCount == OrZeroInt(s.rc[topicId])
      intervalIndex == Min(reviewCount, Len(SPACED_REPETITION_SCHEDULE) - 1)
      days == SPACED_REPETITION_SCHEDULE[intervalIndex + 1]
  IN  IF isCorrect /\ AtLeast(mastery, MASTERY_THRESHOLDS.easy)
        THEN SetNextReview(s, topicId, today + days)
      ELSE IF ~isCorrect \/ Below(mastery, MASTERY_THRESHOLDS.hard)
        THEN SetNextReview(s, topicId, today + 1)
      ELSE s

\* calculateNextReview(topicId, mastery, isCorrect)
calculateNextReview(s, topicId, mastery, isCorrect, today) ==
  LET reviewCount == OrZeroInt(s.rc[topicId])
      intervalIndex == Min(reviewCount, Len(SPACED_REPETITION_SCHEDULE) - 1)
      days == SPACED_REPETITION_SCHEDULE[intervalIndex + 1]
  IN  IF s.nr[topicId] = Undef \/ s.nr[topicId] < today
        THEN IF AtLeast(mastery, MASTERY_THRESHOLDS.easy)
               THEN SetNextReview(s, topicId, today + days)
             ELSE IF AtLeast(mastery, MASTERY_THRESHOLDS.review)
               THEN SetNextReview(s, topicId, today + 3)
             ELSE SetNextReview(s, topicId, today + 1)
        ELSE s

\* a masteryChange that rewards an incorrect response
RequiredChangeWrong(isCorrect) == IF isCorrect THEN 10 ELSE 5

\* masteryChange of updateMasteryScores, in hundredths
RequiredChange(isCorrect) == IF isCorrect THEN 10 ELSE -5

\* a masteryChange for related topics as large as for required topics
RelatedChangeAsRequired(isCorrect) == IF isCorrect THEN 10 ELSE -5

\* masteryChange of updateRelatedTopicsMastery, in hundredths
RelatedChange(isCorrect) == IF isCorrect THEN 2 ELSE -1

\* body of the forEach in updateMasteryScores, for one required topic
updateOneRequired(s, topicId, isCorrect, today) ==
  LET currentMastery == OrZero(s.tm[topicId])
      newMastery == Clamp01(Plus(currentMastery, RequiredChange(isCorrect)))
      s1 == [s EXCEPT !.lp[topicId] = today,
                      !.rc[topicId] = OrZeroInt(s.rc[topicId]),
                      !.tm[topicId] = newMastery]
  IN  Then(updateSpacedRepetitionSchedule(s1, topicId, newMastery,
                                          isCorrect, today),
        LAMBDA s2 :
          Then(IF s2.nr[topicId] # Undef /\ today >= s2.nr[topicId]
                 THEN [s2 EXCEPT !.rc[topicId] = s2.rc[topicId] + 1]
                 ELSE s2,
            LAMBDA s3 :
              calculateNextReview(s3, topicId, newMastery, isCorrect, today)))

RECURSIVE updateMasteryScoresFrom(_, _, _, _, _)
updateMasteryScoresFrom(s, req, i, isCorrect, today) ==
  IF i > Len(req) THEN s
  ELSE Then(updateOneRequired(s, req[i], isCorrect, today),
         LAMBDA s1 : updateMasteryScoresFrom(s1, req, i + 1, isCorrect, today))

\* updateMasteryScores(problem, isCorrect)
updateMasteryScores(s, problem, isCorrect, today) ==
  updateMasteryScoresFrom(s, problem.requiredTopics, 1, isCorrect, today)

\* body of the forEach in updateRelatedTopicsMastery, for one related topic
updateOneRelated(s, topicId, isCorrect) ==
  IF s.tm[topicId] # Absent
    THEN [s EXCEPT !.tm[topicId] =
                      Clamp01(Plus(OrZero(s.tm[topicId]),
                                   RelatedChange(isCorrect)))]
    ELSE s

RECURSIVE updateRelatedFrom(_, _, _, _)
updateRelatedFrom(s, rel, i, isCorrect) ==
  IF i > Len(rel) THEN s
  ELSE Then(updateOneRelated(s, rel[i], isCorrect),
         LAMBDA s1 : updateRelatedFrom(s1, rel, i + 1, isCorrect))

\* updateRelatedTopicsMastery(problem, isCorrect)
updateRelatedTopicsMastery(s, problem, isCorrect) ==
  IF Len(problem.relatedTopics) = 0 THEN s
  ELSE updateRelatedFrom(s, problem.relatedTopics, 1, isCorrect)

\* processResponse(problem, isCorrect, timeSpent), as a function of the store
processResponse(s, problem, isCorrect, today) ==
  LET req == problem.requiredTopics
      s0 == [s EXCEPT !.lp = [t \in AllIds |->
                        IF \E i \in 1..Len(req) : req[i] = t
                          THEN today ELSE s.lp[t]]]
  IN  Then(updateMasteryScores(s0, problem, isCorrect, today),
        LAMBDA s1 : updateRelatedTopicsMastery(s1, problem, isCorrect))

\* getProgress() with notStarted = topics.length - mastered
getProgressForgetsInProgress(tm) ==
  LET mastered ==
        Cardinality({i \in 1..Len(topics) :
                       AtLeast(getTopicMastery(tm, topics[i].id), 80)})
      inProgress ==
        Cardinality({i \in 1..Len(topics) :
                       /\ ~AtLeast(getTopicMastery(tm, topics[i].id), 80)
                       /\ Above(getTopicMastery(tm, topics[i].id), 30)})
  IN  [mastered |-> mastered, inProgress |-> inProgress,
       notStarted |-> Len(topics) - mastered]

\* getProgress()
getProgress(tm) ==
  LET mastered ==
        Cardinality({i \in 1..Len(topics) :
                       AtLeast(getTopicMastery(tm, topics[i].id), 80)})
      inProgress ==
        Cardinality({i \in 1..Len(topics) :
                       /\ ~AtLeast(getTopicMastery(tm, topics[i].id), 80)
                       /\ Above(getTopicMastery(tm, topics[i].id), 30)})
  IN  [mastered |-> mastered, inProgress |-> inProgress,
       notStarted |-> Len(topics) - mastered - inProgress]

\* ------------------------------------------------- readiness analysis
\* an exact fraction num/den, den > 0
Frac(n, d) == [num |-> n, den |-> d]

RECURSIVE SumSeq(_, _)
SumSeq(seq, i) == IF i > Len(seq) THEN 0 ELSE seq[i] + SumSeq(seq, i + 1)

\* a gap measured against full mastery instead of requiredMastery
GapToFullMastery(requiredMastery, currentMastery) ==
  Mastery(100 - currentMastery.dec, FlSub(One.bin, currentMastery.bin))

\* Math.max(0, requiredMastery - currentMastery)
Gap(requiredMastery, currentMastery) ==
  Mastery(Max(0, requiredMastery - currentMastery.dec),
          IF FlLess(currentMastery.bin, Double(requiredMastery))
            THEN FlSub(Double(requiredMastery), currentMastery.bin)
            ELSE Double(0))

\* one entry of missingPrerequisites
MissingEntry(tm, prereq) ==
  LET currentMastery == getTopicMastery(tm, prereq.topicId)
  IN  [topicId |-> prereq.topicId,
       weight |-> prereq.weight,
       requiredMastery |-> prereq.requiredMastery,
       currentMastery |-> currentMastery,
       gap |-> Gap(prereq.requiredMastery, currentMastery)]

\* the test of the second revision of the file: gap > 0
IsMissingAnyGap(gap) == Above(gap, 0)

\* gap > 0.05
IsMissing(gap) == Above(gap, 5)

\* the variant that counts a prerequisite's weight only when it is missing
analyzeTopicReadinessMissingWeight(tm, topicId) ==
  LET topic == getTopicById(topicId)
      all == [i \in 1..Len(topic.prerequisites) |->
                MissingEntry(tm, topic.prerequisites[i])]
      missingPrerequisites == SelectSeq(all, LAMBDA e : IsMissing(e.gap))
      totalWeight ==
        SumSeq([i \in 1..Len(missingPrerequisites) |->
                  missingPrerequisites[i].weight], 1)
      weightedGapSum ==
        SumSeq([i \in 1..Len(missingPrerequisites) |->
                  missingPrerequisites[i].gap.dec * missingPrerequisites[i].weight], 1)
      totalReadinessImpact ==
        IF totalWeight > 0
          THEN Frac(Min(100 * totalWeight, weightedGapSum), 100 * totalWeight)
          ELSE Frac(0, 1)
  IN  IF topic = Null THEN Null
      ELSE [topicId |-> topicId,
            readiness |-> Frac(totalReadinessImpact.den - totalReadinessImpact.num,
                               totalReadinessImpact.den),
            missingPrerequisites |-> missingPrerequisites,
            totalReadinessImpact |-> totalReadinessImpact]

\* analyzeTopicReadiness(topicId)
\*   weightedGapSum is in units of 1/1000, totalWeight in units of 1/10, so
\*   weightedGapSum / totalWeight = weightedGapSum / (100 * totalWeight)
analyzeTopicReadiness(tm, topicId) ==
  LET topic == getTopicById(topicId)
      all == [i \in 1..Len(topic.prerequisites) |->
                MissingEntry(tm, topic.prerequisites[i])]
      totalWeight == SumSeq([i \in 1..Len(all) |-> all[i].weight], 1)
      missingPrerequisites == SelectSeq(all, LAMBDA e : IsMissing(e.gap))
      weightedGapSum ==
        SumSeq([i \in 1..Len(missingPrerequisites) |->
                  missingPrerequisites[i].gap.dec * missingPrerequisites[i].weight], 1)
      totalReadinessImpact ==
        IF totalWeight > 0
          THEN Frac(Min(100 * totalWeight, weightedGapSum), 100 * totalWeight)
          ELSE Frac(0, 1)
  IN  IF topic = Null THEN Null
      ELSE [topicId |-> topicId,
            readiness |-> Frac(totalReadinessImpact.den - totalReadinessImpact.num,
                               totalReadinessImpact.den),
            missingPrerequisites |-> missingPrerequisites,
            totalReadinessImpact |-> totalReadinessImpact]

\* ------------------------------------------------------ path generation
Reverse(seq) == [i \in 1..Len(seq) |-> seq[Len(seq) + 1 - i]]

\* Array.from(new Set(seq)): keeps the first occurrence of every element
RECURSIVE DedupFrom(_, _, _)
DedupFrom(seq, i, acc) ==
  IF i > Len(seq) THEN acc
  ELSE Then(IF InSeq(seq[i], acc) THEN acc ELSE Append(acc, seq[i]),
            LAMBDA next : DedupFrom(seq, i + 1, next))

\* the for-loop over topic.prerequisites inside the breadth-first walk
RECURSIVE EnqueuePrereqs(_, _, _)
EnqueuePrereqs(queue, prereqs, i) ==
  IF i > Len(prereqs) THEN queue
  ELSE Then(IF InSeq(prereqs[i].topicId, queue) THEN queue
            ELSE Append(queue, prereqs[i].topicId),
            LAMBDA next : EnqueuePrereqs(next, prereqs, i + 1))

\* catalog.find(topic => topic.id === id): getTopicById over a given catalog
findTopic(catalog, id) ==
  IF \E i \in 1..Len(catalog) : catalog[i].id = id
    THEN catalog[CHOOSE i \in 1..Len(catalog) :
                   /\ catalog[i].id = id
                   /\ \A j \in 1..(i-1) : catalog[j].id # id]
    ELSE Null

\* one iteration of the while-loop of collectAllPrerequisiteIds: the queue
\* after queue[head] has been taken; visited = elements of queue
WalkStep(catalog, queue, head) ==
  LET topic == findTopic(catalog, queue[head])
  IN  IF topic = Null THEN queue
      ELSE EnqueuePrereqs(queue, topic.prerequisites, 1)

\* the while-loop of collectAllPrerequisiteIds over the shipped catalog
RECURSIVE BfsFrom(_, _)
BfsFrom(queue, head) ==
  IF head > Len(queue) THEN queue
  ELSE Then(WalkStep(topics, queue, head),
            LAMBDA next : BfsFrom(next, head + 1))

\* the statements after the loop, without the final filter: the target
\* stays in the list
FinishWalkWithTarget(queue, targetTopicId) ==
  Then(Reverse(queue), LAMBDA reversed : DedupFrom(reversed, 1, << >>))

\* the statements after the loop: reverse, remove duplicates, drop the target
FinishWalk(queue, targetTopicId) ==
  Then(Reverse(queue), LAMBDA reversed :
    LET allUniquePrereqs == DedupFrom(reversed, 1, << >>)
    IN  SelectSeq(allUniquePrereqs, LAMBDA id : id # targetTopicId))

\* the walk's queue without the final filter: the target stays in the list
collectAllPrerequisiteIdsWithTarget(targetTopicId) ==
  Then(BfsFrom(<<targetTopicId>>, 1), LAMBDA queue :
    FinishWalkWithTarget(queue, targetTopicId))

\* collectAllPrerequisiteIds(targetTopicId)
collectAllPrerequisiteIds(targetTopicId) ==
  Then(BfsFrom(<<targetTopicId>>, 1), LAMBDA queue :
    FinishWalk(queue, targetTopicId))

\* pathTypes in another order
StrategiesSwapped == <<"mostThorough", "fastest", "examFocused">>

\* the ids of pathTypes, in order
Strategies == <<"fastest", "mostThorough", "examFocused">>

\* x || 0.5 on a fraction: 0 is falsy
OrHalf(f) == IF f.num = 0 THEN Frac(1, 2) ELSE f

\* topic.impactScore || 0.5, in hundredths
ImpactOf(topic) == IF topic.impactScore = 0 THEN 50 ELSE topic.impactScore

\* topic.estimatedTime || 30
TimeOf(topic) ==
  IF topic.estimatedTime = 0 THEN DefaultEstimatedTime ELSE topic.estimatedTime

\* difficultyMultiplier, in tenths
DifficultyMultiplier(topic) ==
  IF topic.difficulty = "hard" THEN 15
  ELSE IF topic.difficulty = "medium" THEN 12 ELSE 10

RECURSIVE GCD(_, _)
GCD(a, b) == IF b = 0 THEN a ELSE GCD(b, a % b)

\* the product a*b*c of three naturals below 2^15, as <<high, low>> digits
\* in base 2^15 (the product does not fit the checker's integers)
Prod3(a, b, c) ==
  LET p == a * b
      ph == p \div 32768
      pl == p % 32768
  IN  << ph * c + ((pl * c) \div 32768), (pl * c) % 32768 >>

PairLess(x, y) == x[1] < y[1] \/ (x[1] = y[1] /\ x[2] < y[2])

\* the inputs of a topic's score
ScoreInputs(tm, topicId) ==
  LET topic == getTopicById(topicId)
      mastery == getTopicMastery(tm, topicId)
  IN  Then(analyzeTopicReadiness(tm, topicId), LAMBDA readiness :
        [topicId |-> topicId,
         mastery |-> mastery,
         masteryGap |-> 100 - mastery.dec,
         r |-> OrHalf(readiness.readiness),
         impact |-> readiness.totalReadinessImpact,
         imp |-> ImpactOf(topic),
         dm |-> DifficultyMultiplier(topic)])

\* topicPool.map(topicId => ...): the score inputs of every pool topic
RECURSIVE MapScoreInputs(_, _, _, _)
MapScoreInputs(tm, topicPool, i, acc) ==
  IF i > Len(topicPool) THEN acc
  ELSE Then(Append(acc, ScoreInputs(tm, topicPool[i])),
            LAMBDA next : MapScoreInputs(tm, topicPool, i + 1, next))

\* a.score < b.score for the scores the strategy assigns, compared exactly:
\*   fastest       masteryGap * r * r * 2 * impactScore
\*   mostThorough  masteryGap * (1 + totalReadinessImpact) * multiplier
\*   examFocused   masteryGap * impactScore * 2, halved when mastery > 0.7
ScoreLess(strategy, a, b) ==
  IF strategy = "fastest" THEN
    LET g == GCD(a.r.den, b.r.den)
        x == a.r.num * (b.r.den \div g)
        y == b.r.num * (a.r.den \div g)
    IN  PairLess(Prod3(a.masteryGap * a.imp, x, x),
                 Prod3(b.masteryGap * b.imp, y, y))
  ELSE IF strategy = "mostThorough" THEN
    LET g == GCD(a.impact.den, b.impact.den)
    IN  PairLess(Prod3(a.masteryGap * a.dm, a.impact.den + a.impact.num,
                       b.impact.den \div g),
                 Prod3(b.masteryGap * b.dm, b.impact.den + b.impact.num,
                       a.impact.den \div g))
  ELSE
    a.masteryGap * a.imp * (IF Above(a.mastery, 70) THEN 1 ELSE 2)
      < b.masteryGap * b.imp * (IF Above(b.mastery, 70) THEN 1 ELSE 2)

\* stable insertion of x into a list sorted by descending score
RECURSIVE InsertDesc(_, _, _, _)
InsertDesc(strategy, sorted, x, i) ==
  IF i > Len(sorted) THEN Append(sorted, x)
  ELSE IF ScoreLess(strategy, sorted[i], x)
    THEN SubSeq(sorted, 1, i - 1) \o <<x>> \o SubSeq(sorted, i, Len(sorted))
    ELSE InsertDesc(strategy, sorted, x, i + 1)

\* scoredTopics.sort((a, b) => b.score - a.score); Array.prototype.sort
\* is stable
RECURSIVE SortDesc(_, _, _, _)
SortDesc(strategy, seq, i, acc) ==
  IF i > Len(seq) THEN acc
  ELSE Then(InsertDesc(strategy, acc, seq[i], 1),
            LAMBDA next : SortDesc(strategy, seq, i + 1, next))

\* a prerequisite check that always passes
PrereqsMetIgnored(tm, topic, path) == TRUE

\* prerequisites.every(p => mastery(p) >= 0.9 || allAddedTopics.has(p))
PrereqsMet(tm, topic, path) ==
  \A i \in 1..Len(topic.prerequisites) :
     \/ AtLeast(getTopicMastery(tm, topic.prerequisites[i].topicId), 90)
     \/ InSeq(topic.prerequisites[i].topicId, path)

\* a budget test that always passes
WithinBudgetIgnored(currentTime, estTime, availableTime) == TRUE

\* currentTime + estTime <= availableTime
WithinBudget(currentTime, estTime, availableTime) ==
  currentTime + estTime <= availableTime

\* the greedy for-loop; acc = [path, currentTime]
RECURSIVE GreedyFrom(_, _, _, _, _)
GreedyFrom(tm, sorted, i, availableTime, acc) ==
  IF i > Len(sorted) THEN acc
  ELSE LET topic == getTopicById(sorted[i].topicId)
           estTime == TimeOf(topic)
       IN  Then(IF /\ WithinBudget(acc.currentTime, estTime, availableTime)
                   /\ PrereqsMet(tm, topic, acc.path)
                  THEN [path |-> Append(acc.path, sorted[i].topicId),
                        currentTime |-> acc.currentTime + estTime]
                  ELSE acc,
                LAMBDA next : GreedyFrom(tm, sorted, i + 1, availableTime, next))

\* a double that is either NaN or v / ConfUnit
NaN == [nan |-> TRUE, v |-> 0]
Num(v) == [nan |-> FALSE, v |-> v]

MathMin(x, y) == IF x.nan \/ y.nan THEN NaN ELSE Num(Min(x.v, y.v))
MathMax(x, y) == IF x.nan \/ y.nan THEN NaN ELSE Num(Max(x.v, y.v))

\* the strategy's base confidence: 0.85, 0.95, 0.8
BaseConfidence(strategy) ==
  IF strategy = "fastest" THEN 5100
  ELSE IF strategy = "mostThorough" THEN 5700 ELSE 4800

\* confidence - (missed / total) * 0.2; 0 / 0 is NaN
Penalised(base, missed, total) ==
  IF total = 0 THEN NaN
  ELSE Num(base - ((missed * (ConfUnit \div 5)) \div total))

\* step 3 without its else-branch: the target is added only when it fits
AppendTargetIfFits(packed, targetTopicId, targetTime, targetPrereqsMet, availableTime) ==
  IF /\ WithinBudget(packed.currentTime, targetTime, availableTime)
     /\ targetPrereqsMet
    THEN [path |-> Append(packed.path, targetTopicId),
          currentTime |-> packed.currentTime + targetTime]
    ELSE packed

\* step 3 of generatePathByStrategy: add the target topic
AppendTarget(packed, targetTopicId, targetTime, targetPrereqsMet, availableTime) ==
  IF /\ WithinBudget(packed.currentTime, targetTime, availableTime)
     /\ targetPrereqsMet
    THEN [path |-> Append(packed.path, targetTopicId),
          currentTime |-> packed.currentTime + targetTime]
  ELSE IF targetPrereqsMet
    THEN [path |-> Append(packed.path, targetTopicId),
          currentTime |-> packed.currentTime]
  ELSE packed

\* generatePathByStrategy(targetTopicId, strategy, availableTime)
generatePathByStrategy(tm, targetTopicId, strategy, availableTime) ==
  LET targetTopic == getTopicById(targetTopicId)
  IN  IF targetTopic = Null THEN Null
      ELSE
      \* 1. the transitive prerequisites that are not yet mastered
      Then(collectAllPrerequisiteIds(targetTopicId), LAMBDA requiredPrereqIds :
      Then(SelectSeq(requiredPrereqIds,
                     LAMBDA id : Below(getTopicMastery(tm, id), 90)), LAMBDA topicPool :
      \* 2. scored and sorted by the strategy
      Then(MapScoreInputs(tm, topicPool, 1, << >>), LAMBDA scoredTopics :
      Then(SortDesc(strategy, scoredTopics, 1, << >>), LAMBDA sorted :
      \* 3. packed greedily, then the target
      Then(GreedyFrom(tm, sorted, 1, availableTime,
                      [path |-> << >>, currentTime |-> 0]), LAMBDA packed :
      Then(AppendTarget(packed, targetTopicId, TimeOf(targetTopic),
                        PrereqsMet(tm, targetTopic, packed.path),
                        availableTime), LAMBDA final :
      \* 4. the confidence
      LET missedPrereqs ==
            SelectSeq(requiredPrereqIds, LAMBDA id : ~InSeq(id, packed.path))
          confidence ==
            Penalised(BaseConfidence(strategy), Len(missedPrereqs),
                      Len(requiredPrereqIds))
      IN  [topics |-> final.path,
           estimatedTime |-> final.currentTime,
           confidence |-> MathMax(Num(ConfUnit \div 10),
                                  MathMin(Num(ConfUnit), confidence))]))))))

\* the for-loop of generateLearningPaths over pathTypes
RECURSIVE PathsFrom(_, _, _, _, _)
PathsFrom(tm, targetTopicId, availableTime, i, paths) ==
  IF i > Len(Strategies) THEN paths
  ELSE Then(generatePathByStrategy(tm, targetTopicId, Strategies[i],
                                   availableTime), LAMBDA result :
       Then(IF result # Null
              THEN Append(paths,
                     [id |-> <<targetTopicId, Strategies[i]>>,
                      strategy |-> Strategies[i],
                      topics |-> result.topics,
                      estimatedTime |-> result.estimatedTime,
                      confidence |-> result.confidence])
              ELSE paths,
            LAMBDA next :
              PathsFrom(tm, targetTopicId, availableTime, i + 1, next)))

\* generateLearningPaths(targetTopicId, availableTime)
generateLearningPaths(tm, targetTopicId, availableTime) ==
  PathsFrom(tm, targetTopicId, availableTime, 1, << >>)

\* ------------------------------------------- gaps and recommendations
\* the days after which a topic counts as not practised: 30 days, and the
\* 365 days reported for a topic that was never practised
StaleDays == 30
NeverPractisedDays == 365

\* getTimeSinceLastPracticed(topicId), in days
getTimeSinceLastPracticed(s, topicId, today) ==
  IF s.lp[topicId] # Undef THEN today - s.lp[topicId] ELSE NeverPractisedDays

\* the place of seq[i] after a stable sort by ascending key
Rank(seq, i) ==
  1 + Cardinality({j \in 1..Len(seq) :
                     \/ seq[j].key < seq[i].key
                     \/ seq[j].key = seq[i].key /\ j < i})

\* Array.prototype.sort with a comparator on a number (it is stable),
\* followed by slice(0, n)
FirstAsc(seq, n) ==
  Then(SelectSeq(seq, LAMBDA e : TRUE),
    LAMBDA keyed :
      [k \in 1..Min(n, Len(keyed)) |->
         keyed[CHOOSE i \in 1..Len(keyed) : Rank(keyed, i) = k].item])

\* stable insertion of x into a list sorted by ascending mastery
RECURSIVE InsertByMastery(_, _, _)
InsertByMastery(sorted, x, i) ==
  IF i > Len(sorted) THEN Append(sorted, x)
  ELSE IF FlLess(x.mastery.bin, sorted[i].mastery.bin)
    THEN SubSeq(sorted, 1, i - 1) \o <<x>> \o SubSeq(sorted, i, Len(sorted))
    ELSE InsertByMastery(sorted, x, i + 1)

\* sort((a, b) => this.getTopicMastery(a) - this.getTopicMastery(b))
RECURSIVE SortByMastery(_, _, _)
SortByMastery(seq, i, acc) ==
  IF i > Len(seq) THEN acc
  ELSE Then(InsertByMastery(acc, seq[i], 1),
            LAMBDA next : SortByMastery(seq, i + 1, next))

Items(keyed) == [i \in 1..Len(keyed) |-> keyed[i].item]

\* weight * gap, in thousandths
WeightedGap(e) == e.weight * e.gap.dec

\* missingPrerequisites.sort((a, b) => b.weight * b.gap - a.weight * a.gap)
sortByWeightedGap(missingPrerequisites) ==
  FirstAsc([i \in 1..Len(missingPrerequisites) |->
              [key |-> 0 - WeightedGap(missingPrerequisites[i]),
               item |-> missingPrerequisites[i]]],
           Len(missingPrerequisites))

\* the entries identifyKnowledgeGaps pushes; Math.round(x * 100) of a value
\* in hundredths is that number of hundredths
LowMastery(topic, mastery) ==
  [topic |-> topic, reason |-> [kind |-> "Low mastery", percent |-> mastery.dec]]

NotPractised(topic) ==
  [topic |-> topic, reason |-> [kind |-> "Not practiced in over a month"]]

PrerequisiteFor(prereqTopic, topic, mostCritical) ==
  [topic |-> prereqTopic,
   reason |-> [kind |-> "Prerequisite for", name |-> topic.id,
               weight |-> 10 * mostCritical.weight,
               gap |-> mostCritical.gap.dec]]

\* if (mastery < 0.3)
IsLowMastery(mastery) == Below(mastery, 30)

\* a choice of the prerequisite entry that takes the first missing one
MostCriticalFirstListed(missingPrerequisites) == missingPrerequisites[1]

\* readiness.missingPrerequisites.sort(...)[0]
MostCritical(missingPrerequisites) == sortByWeightedGap(missingPrerequisites)[1]

\* body of the forEach in identifyKnowledgeGaps, for one required topic
gapsOfRequired(s, topicId, today) ==
  LET topic == getTopicById(topicId)
      mastery == getTopicMastery(s.tm, topicId)
      timeSincePracticed == getTimeSinceLastPracticed(s, topicId, today)
  IN  IF topic = Null THEN << >>
      ELSE Then(analyzeTopicReadiness(s.tm, topicId),
        LAMBDA readiness :
           (IF IsLowMastery(mastery)
              THEN << LowMastery(topic, mastery) >> ELSE << >>)
        \o (IF timeSincePracticed > StaleDays
              THEN << NotPractised(topic) >> ELSE << >>)
        \o (IF Len(readiness.missingPrerequisites) > 0
              THEN Then(MostCritical(readiness.missingPrerequisites),
                     LAMBDA mostCritical :
                       IF getTopicById(mostCritical.topicId) # Null
                         THEN << PrerequisiteFor(
                                   getTopicById(mostCritical.topicId),
                                   topic, mostCritical) >>
                         ELSE << >>)
              ELSE << >>))

RECURSIVE gapsFrom(_, _, _, _, _)
gapsFrom(s, req, i, today, gaps) ==
  IF i > Len(req) THEN gaps
  ELSE Then(gaps \o gapsOfRequired(s, req[i], today),
         LAMBDA next : gapsFrom(s, req, i + 1, today, next))

\* a final sort that puts the higher mastery first
sortGapsDescending(s, gaps) ==
  Reverse(Items(SortByMastery(
    [i \in 1..Len(gaps) |->
       [mastery |-> getTopicMastery(s.tm, gaps[i].topic.id),
        item |-> gaps[i]]], 1, << >>)))

\* gaps.sort((a, b) => aMastery - bMastery)
sortGaps(s, gaps) ==
  Items(SortByMastery(
    [i \in 1..Len(gaps) |->
       [mastery |-> getTopicMastery(s.tm, gaps[i].topic.id),
        item |-> gaps[i]]], 1, << >>))

\* identifyKnowledgeGaps(problem)
identifyKnowledgeGaps(s, problem, today) ==
  Then(gapsFrom(s, problem.requiredTopics, 1, today, << >>),
    LAMBDA gaps : sortGaps(s, gaps))

\* getTopicsDueForReview(limit): topicNextReview is walked in key order
getTopicsDueForReview(s, limit, today) ==
  Then(SelectSeq(s.keys, LAMBDA topicId : s.nr[topicId] <= today),
    LAMBDA due :
      FirstAsc([i \in 1..Len(due) |->
                  [key |-> s.nr[due[i]] - today,
                   item |-> [topicId |-> due[i],
                             dueIn |-> s.nr[due[i]] - today]]], limit))

\* the entries getRecommendedTopics returns; getTopicById(t.topicId)! is
\* undefined for an id outside the catalog
DueForReview(t) ==
  [topic |-> getTopicById(t.topicId),
   reason |-> [kind |-> "Due for review", dueIn |-> t.dueIn]]

NeedsMorePractice(topic, mastery) ==
  [topic |-> topic,
   reason |-> [kind |-> "Needs more practice", percent |-> mastery.dec]]

\* topics.filter(mastery < MASTERY_THRESHOLDS.easy).sort(by mastery)
topicsNeedingPractice(s) ==
  Then(SelectSeq(topics, LAMBDA topic :
         Below(getTopicMastery(s.tm, topic.id), MASTERY_THRESHOLDS.easy)),
    LAMBDA below :
      Items(SortByMastery(
        [i \in 1..Len(below) |->
           [mastery |-> getTopicMastery(s.tm, below[i].id),
            item |-> below[i]]], 1, << >>)))

\* getRecommendedTopics(limit, targetTopicId); targetTopicId is not read
getRecommendedTopics(s, limit, targetTopicId, today) ==
  Then(getTopicsDueForReview(s, limit, today),
    LAMBDA dueTopics :
      IF Len(dueTopics) >= limit
        THEN [i \in 1..Len(dueTopics) |-> DueForReview(dueTopics[i])]
        ELSE Then(topicsNeedingPractice(s),
               LAMBDA needing :
                 LET practice == SubSeq(needing, 1,
                                   Min(limit - Len(dueTopics), Len(needing)))
                     all == [i \in 1..Len(dueTopics) |->
                               DueForReview(dueTopics[i])]
                            \o [i \in 1..Len(practice) |->
                                  NeedsMorePractice(practice[i],
                                    getTopicMastery(s.tm, practice[i].id))]
                 IN  SubSeq(all, 1, Min(limit, Len(all)))))

\* problem.difficulty === 'easy' ? 1 : problem.difficulty === 'medium' ? 2 : 3
difficultyScore(problem) ==
  IF problem.difficulty = "easy" THEN 1
  ELSE IF problem.difficulty = "medium" THEN 2 ELSE 3

\* body of the forEach in getRecommendedProblems
gapProblem(s, problem, today) ==
  Then(identifyKnowledgeGaps(s, problem, today),
    LAMBDA gaps :
      [key |-> 0 - Len(gaps) * difficultyScore(problem),
       item |-> [problem |-> problem, reason |-> gaps]])

\* the first limit problems with gaps in catalog order, without the sort
getRecommendedProblemsUnsorted(s, limit, today) ==
  Then(SelectSeq([i \in 1..Len(catalogProblems) |->
                    gapProblem(s, catalogProblems[i], today)],
                 LAMBDA e : Len(e.item.reason) > 0),
    LAMBDA gapProblems :
      [k \in 1..Min(limit, Len(gapProblems)) |-> gapProblems[k].item])

\* getRecommendedProblems(limit)
getRecommendedProblems(s, limit, today) ==
  Then(SelectSeq([i \in 1..Len(catalogProblems) |->
                    gapProblem(s, catalogProblems[i], today)],
                 LAMBDA e : Len(e.item.reason) > 0),
    LAMBDA gapProblems : FirstAsc(gapProblems, limit))

\* ---------------------------------------------------------------- inputs
\* time budgets, in minutes: none, one topic, and the totals of the
\* catalog's prerequisite chains with and without the target
Times == {0, 30, 75, 135, 225, 345}

\* replayed practice of one topic: <<correct responses, incorrect responses>>
ReplayPlans == { <<0, 0>>, <<5, 0>>, <<8, 1>>, <<MaxReplay, 0>> }

\* replayed practice before the readiness calls: none, to 0.5, to one ulp
\* below 0.8, to 0.75, and to the top
ReadinessPlans ==
  { <<0, 0>>, <<5, 0>>, <<8, 0>>, <<8, 1>>, <<MaxReplay, 0>> }

\* replayed practice before the gap and recommendation calls
GapPlans == { <<0, 0>>, <<3, 0>>, <<9, 0>> }

\* a pause longer than the 30 days after which a topic counts as not practised
Later == 40

\* limits passed to getRecommendedTopics: one entry, and the default
Limits == {1, 3}

\* the default limit of getRecommendedProblems
DefaultProblemLimit == 5

\* no targetTopicId argument
NoTarget == "undefined"

\* the topics that are a prerequisite of some topic, with the shipped
\* single-topic problem that practises each
PractisedBy ==
  << [topicId |-> "basic_arithmetic",
      problem |-> Problem("add1", <<"basic_arithmetic">>, << >>, "easy")],
     [topicId |-> "fractions",
      problem |-> Problem("frac1", <<"fractions">>, << >>, "easy")],
     [topicId |-> "basic_algebra",
      problem |-> Problem("alg1", <<"basic_algebra">>, << >>, "easy")],
     [topicId |-> "geometry",
      problem |-> Problem("geo1", <<"geometry">>, << >>, "easy")] >>

\* n times the same response: the first half of them, then the rest
RECURSIVE Repeat(_, _, _, _, _)
Repeat(s, problem, isCorrect, today, n) ==
  IF n = 0 THEN s
  ELSE IF n = 1 THEN processResponse(s, problem, isCorrect, today)
  ELSE Then(Repeat(s, problem, isCorrect, today, n \div 2),
         LAMBDA s1 : Repeat(s1, problem, isCorrect, today, n - (n \div 2)))

\* counts[1] correct responses to the problem, then counts[2] incorrect ones
Practise(s, problem, counts, today) ==
  Then(Repeat(s, problem, TRUE, today, counts[1]),
    LAMBDA s1 : Repeat(s1, problem, FALSE, today, counts[2]))

\* the store after practising PractisedBy[1..i] as plan says
RECURSIVE Replay(_, _, _)
Replay(plan, i, today) ==
  IF i = 0 THEN NewStore
  ELSE Then(Replay(plan, i - 1, today),
         LAMBDA s : Practise(s, PractisedBy[i].problem, plan[i], today))

RECURSIVE PlanResponses(_, _)
PlanResponses(plan, i) ==
  IF i > Len(plan) THEN 0
  ELSE plan[i][1] + plan[i][2] + PlanResponses(plan, i + 1)

\* --------------------------------------------------------------- actions
Install(s) ==
  /\ topicMastery' = s.tm
  /\ topicLastPracticed' = s.lp
  /\ topicNextReview' = s.nr
  /\ topicReviewCount' = s.rc
  /\ reviewKeys' = s.keys

Current ==
  [tm |-> topicMastery, lp |-> topicLastPracticed,
   nr |-> topicNextReview, rc |-> topicReviewCount, keys |-> reviewKeys]

\* no analyzeTopicReadiness call since the last processResponse
NoReadiness == [topicId |-> "none", result |-> Null, again |-> FALSE]

\* new MathLearningAssistant()
Init ==
  /\ topicMastery = NewStore.tm
  /\ topicLastPracticed = NewStore.lp
  /\ topicNextReview = NewStore.nr
  /\ topicReviewCount = NewStore.rc
  /\ reviewKeys = NewStore.keys
  /\ userResponses = 0
  /\ now = StartDay
  /\ lastCall = [op |-> "constructor"]
  /\ earlierReadiness = NoReadiness

\* learningAssistant.processResponse(problems[p], isCorrect, timeSpent)
ProcessResponse(p, isCorrect) ==
  /\ userResponses < MaxResponses
  /\ userResponses' = userResponses + 1
  /\ \E s \in {processResponse(Current, problems[p], isCorrect, now)} :
       Install(s)
  /\ lastCall' = [op |-> "processResponse", problem |-> p,
                  isCorrect |-> isCorrect]
  /\ earlierReadiness' = NoReadiness
  /\ UNCHANGED now

\* a getTopicMastery that stores the default it returns for an absent id
GetTopicMasteryStoringDefault(topicId) ==
  /\ lastCall' = [op |-> "getTopicMastery", topicId |-> topicId,
                  result |-> getTopicMastery(topicMastery, topicId)]
  /\ topicMastery' = [topicMastery EXCEPT ![topicId] = OrZero(@)]
  /\ UNCHANGED <<topicLastPracticed, topicNextReview, topicReviewCount,
                 reviewKeys, userResponses, now, earlierReadiness>>

\* learningAssistant.getTopicMastery(topicId)
GetTopicMastery(topicId) ==
  /\ lastCall' = [op |-> "getTopicMastery", topicId |-> topicId,
                  result |-> getTopicMastery(topicMastery, topicId)]
  /\ UNCHANGED <<store, userResponses, now, earlierReadiness>>

\* learningAssistant.getProgress()
GetProgress ==
  /\ lastCall' = [op |-> "getProgress", result |-> getProgress(topicMastery)]
  /\ UNCHANGED <<store, userResponses, now, earlierReadiness>>

\* learningAssistant.analyzeTopicReadiness(topicId)
AnalyzeTopicReadiness(topicId) ==
  /\ lastCall' = [op |-> "analyzeTopicReadiness", topicId |-> topicId,
                  result |-> analyzeTopicReadiness(topicMastery, topicId)]
  /\ earlierReadiness' = [topicId |-> topicId, result |-> lastCall'.result,
                          again |-> earlierReadiness.topicId = topicId]
  /\ UNCHANGED <<store, userResponses, now>>

\* learningAssistant.generateLearningPaths(targetTopicId, availableTime)
GenerateLearningPaths(targetTopicId, availableTime) ==
  /\ lastCall' = [op |-> "generateLearningPaths",
                  targetTopicId |-> targetTopicId,
                  availableTime |-> availableTime,
                  result |-> generateLearningPaths(topicMastery, targetTopicId,
                                                   availableTime)]
  /\ UNCHANGED <<store, userResponses, now, earlierReadiness>>

Next ==
  \/ \E p \in 1..Len(problems), isCorrect \in BOOLEAN :
       ProcessResponse(p, isCorrect)
  \/ \E topicId \in AllIds : GetTopicMastery(topicId)
  \/ GetProgress

\* the engine from construction on
Spec == Init /\ [][Next]_vars

\* The read operations are functions of the mastery map alone.  SpecPath
\* applies them in the stores that a practice session on the prerequisite
\* topics leaves behind.
InitPath ==
  \E plan \in [1..Len(PractisedBy) -> ReplayPlans] :
     LET s == Replay(plan, Len(PractisedBy), StartDay)
     IN  /\ topicMastery = s.tm
         /\ topicLastPracticed = s.lp
         /\ topicNextReview = s.nr
         /\ topicReviewCount = s.rc
         /\ reviewKeys = s.keys
         /\ userResponses = PlanResponses(plan, 1)
         /\ now = StartDay
         /\ lastCall = [op |-> "processResponse"]
         /\ earlierReadiness = NoReadiness

\* an identifyKnowledgeGaps that records the problem as answered incorrectly
IdentifyKnowledgeGapsRecording(p) ==
  /\ lastCall' = [op |-> "identifyKnowledgeGaps", problem |-> p,
                  result |-> identifyKnowledgeGaps(Current, problems[p], now)]
  /\ \E s \in {processResponse(Current, problems[p], FALSE, now)} :
       Install(s)
  /\ UNCHANGED <<userResponses, now, earlierReadiness>>

\* learningAssistant.identifyKnowledgeGaps(problem)
IdentifyKnowledgeGaps(p) ==
  /\ lastCall' = [op |-> "identifyKnowledgeGaps", problem |-> p,
                  result |-> identifyKnowledgeGaps(Current, problems[p], now)]
  /\ UNCHANGED <<store, userResponses, now, earlierReadiness>>

\* learningAssistant.getRecommendedTopics(limit, targetTopicId)
GetRecommendedTopics(limit, targetTopicId) ==
  /\ lastCall' = [op |-> "getRecommendedTopics", limit |-> limit,
                  targetTopicId |-> targetTopicId,
                  result |-> getRecommendedTopics(Current, limit,
                                                  targetTopicId, now)]
  /\ UNCHANGED <<store, userResponses, now, earlierReadiness>>

\* learningAssistant.getRecommendedProblems(limit)
GetRecommendedProblems(limit) ==
  /\ lastCall' = [op |-> "getRecommendedProblems", limit |-> limit,
                  result |-> getRecommendedProblems(Current, limit, now)]
  /\ UNCHANGED <<store, userResponses, now, earlierReadiness>>

\* time passes without a call, at most twice
Pause ==
  /\ now < StartDay + 2 * Later
  /\ now' = now + Later
  /\ lastCall' = [op |-> "none"]
  /\ UNCHANGED <<store, userResponses, earlierReadiness>>

\* processResponse(problem, isCorrect, timeSpent) after a pause
ProcessResponseLater(p, isCorrect) ==
  /\ now < StartDay + Later
  /\ now' = now + Later
  /\ userResponses' = userResponses + 1
  /\ \E s \in {processResponse(Current, problems[p], isCorrect, now')} :
       Install(s)
  /\ lastCall' = [op |-> "processResponse", problem |-> p,
                  isCorrect |-> isCorrect]
  /\ earlierReadiness' = NoReadiness

NextPath ==
  \E targetTopicId \in AllIds, availableTime \in Times :
    GenerateLearningPaths(targetTopicId, availableTime)

SpecPath == InitPath /\ [][NextPath]_vars

\* SpecReadiness applies analyzeTopicReadiness after a practice session.
InitReadiness ==
  \E plan \in [1..Len(PractisedBy) -> ReadinessPlans] :
     LET s == Replay(plan, Len(PractisedBy), StartDay)
     IN  /\ topicMastery = s.tm
         /\ topicLastPracticed = s.lp
         /\ topicNextReview = s.nr
         /\ topicReviewCount = s.rc
         /\ reviewKeys = s.keys
         /\ userResponses = PlanResponses(plan, 1)
         /\ now = StartDay
         /\ lastCall = [op |-> "processResponse"]
         /\ earlierReadiness = NoReadiness

NextReadiness == \E topicId \in AllIds : AnalyzeTopicReadiness(topicId)

SpecReadiness == InitReadiness /\ [][NextReadiness]_vars

\* SpecGaps: a client that, after a practice session, asks for gaps and
\* recommendations, at once or after a pause, with at most one more response.
InitGaps ==
  \E plan \in [1..Len(PractisedBy) -> GapPlans] :
     LET s == Replay(plan, Len(PractisedBy), StartDay)
     IN  /\ topicMastery = s.tm
         /\ topicLastPracticed = s.lp
         /\ topicNextReview = s.nr
         /\ topicReviewCount = s.rc
         /\ reviewKeys = s.keys
         /\ userResponses = PlanResponses(plan, 1)
         /\ now = StartDay
         /\ lastCall = [op |-> "processResponse"]
         /\ earlierReadiness = NoReadiness

\* the topics whose readiness the gaps client asks for
ReadinessTopics == {"fractions", "basic_algebra"}

NextGaps ==
  \/ \E p \in 1..Len(problems), isCorrect \in BOOLEAN :
       ProcessResponseLater(p, isCorrect)
  \/ Pause
  \/ \E topicId \in {"fractions", UnknownId} : GetTopicMastery(topicId)
  \/ GetProgress
  \/ \E topicId \in ReadinessTopics : AnalyzeTopicReadiness(topicId)
  \/ GenerateLearningPaths("fractions", 30)
  \/ \E p \in 1..Len(problems) : IdentifyKnowledgeGaps(p)
  \/ \E limit \in Limits, targetTopicId \in {NoTarget, "basic_algebra"} :
       GetRecommendedTopics(limit, targetTopicId)
  \/ GetRecommendedProblems(DefaultProblemLimit)

SpecGaps == InitGaps /\ [][NextGaps]_vars

\* SpecWalk: collectAllPrerequisiteIds, one loop iteration at a time, over
\* the shipped catalog and over every catalog of three topics whose
\* prerequisite lists name up to MaxGraphPrereqs of the three ids and an id
\* that is no topic, in any order, so with cycles, self-references,
\* repetitions and unknown ids.  The three ids are interchangeable, so the
\* first of them is the target.
GraphIds == <<"A", "B", "C">>

PrereqLists ==
  UNION { [1..n -> { [topicId |-> id] :
                       id \in {GraphIds[i] : i \in 1..Len(GraphIds)}
                                 \cup {UnknownId} }] :
            n \in 0..MaxGraphPrereqs }

GraphCatalogs ==
  { [i \in 1..Len(GraphIds) |->
       [id |-> GraphIds[i], prerequisites |-> lists[i]]] :
      lists \in [1..Len(GraphIds) -> PrereqLists] }

\* this.collectAllPrerequisiteIds(targetTopicId): the statements before the
\* loop
CollectAllPrerequisiteIds(catalog, targetTopicId) ==
  /\ lastCall.op = "constructor"
  /\ lastCall' = [op |-> "collectAllPrerequisiteIds", pc |-> "while",
                  catalog |-> catalog, targetTopicId |-> targetTopicId,
                  queue |-> <<targetTopicId>>, head |-> 1, result |-> << >>]
  /\ UNCHANGED <<store, userResponses, now, earlierReadiness>>

\* while (head < queue.length) { ... }: one iteration
WalkLoop ==
  /\ lastCall.op = "collectAllPrerequisiteIds"
  /\ lastCall.pc = "while"
  /\ lastCall.head <= Len(lastCall.queue)
  /\ lastCall' = [lastCall EXCEPT
                    !.queue = WalkStep(lastCall.catalog, lastCall.queue,
                                       lastCall.head),
                    !.head = lastCall.head + 1]
  /\ UNCHANGED <<store, userResponses, now, earlierReadiness>>

\* the loop's exit and the return statement
WalkReturn ==
  /\ lastCall.op = "collectAllPrerequisiteIds"
  /\ lastCall.pc = "while"
  /\ lastCall.head > Len(lastCall.queue)
  /\ lastCall' = [lastCall EXCEPT
                    !.pc = "done",
                    !.result = FinishWalk(lastCall.queue,
                                          lastCall.targetTopicId)]
  /\ UNCHANGED <<store, userResponses, now, earlierReadiness>>

NextWalk ==
  \/ \E targetTopicId \in AllIds :
       CollectAllPrerequisiteIds(topics, targetTopicId)
  \/ \E catalog \in GraphCatalogs :
       CollectAllPrerequisiteIds(catalog, GraphIds[1])
  \/ WalkLoop
  \/ WalkReturn

\* the method runs on: a loop iteration or the return that can be taken is
\* taken
SpecWalk ==
  Init /\ [][NextWalk]_vars /\ WF_vars(WalkLoop) /\ WF_vars(WalkReturn)

\* ================================================================ claims
PathsReturned == lastCall.op = "generateLearningPaths"

\* the estimated times of the topics of a path other than the target
RECURSIVE NonTargetTime(_, _, _)
NonTargetTime(path, targetTopicId, k) ==
  IF k > Len(path) THEN 0
  ELSE (IF path[k] = targetTopicId THEN 0
        ELSE IF getTopicById(path[k]).estimatedTime = 0 THEN 30
        ELSE getTopicById(path[k]).estimatedTime)
       + NonTargetTime(path, targetTopicId, k + 1)

\* a direct prerequisite is mastered, or stands in the path before position k
MasteredOrEarlier(path, k, prereqId) ==
  \/ AtLeast(getTopicMastery(topicMastery, prereqId), 90)
  \/ \E j \in 1..(k - 1) : path[j] = prereqId

\* 0 <= m <= 1, for the double and for the decimal it stands for
InUnitInterval(m) ==
  /\ m.dec \in 0..100
  /\ ~FlLess(One.bin, m.bin)

\* a <= b on mastery values, as doubles
NotAbove(a, b) == ~FlLess(b.bin, a.bin)

\* C1: after any sequence of processResponse calls, getTopicMastery(t) is in
\* [0,1] for every topic id t, known or not, and so is every value returned.
C1_MasteryInUnitInterval ==
  /\ \A t \in AllIds : InUnitInterval(getTopicMastery(topicMastery, t))
  /\ lastCall.op = "getTopicMastery" => InUnitInterval(lastCall.result)

\* getTopicMastery returned 1 for a topic whose update was clamped
C1_Witness ==
  /\ lastCall.op = "getTopicMastery"
  /\ lastCall.topicId = "fractions"
  /\ lastCall.result = One

\* C2: a correct processResponse never decreases, and an incorrect one never
\* increases, the mastery of a topic in problem.requiredTopics.
C2_Monotone ==
  [][ userResponses' # userResponses =>
        LET req == problems[lastCall'.problem].requiredTopics
        IN  \A i \in 1..Len(req) :
              IF lastCall'.isCorrect
                THEN NotAbove(getTopicMastery(topicMastery, req[i]),
                              getTopicMastery(topicMastery', req[i]))
                ELSE NotAbove(getTopicMastery(topicMastery', req[i]),
                              getTopicMastery(topicMastery, req[i])) ]_vars

\* an incorrect response has just lowered the mastery of a required topic
\* that earlier correct responses had raised
C2_Witness ==
  /\ lastCall.op = "processResponse"
  /\ ~lastCall.isCorrect
  /\ problems[lastCall.problem].id = "word4"
  /\ topicMastery["basic_algebra"].dec = 15

\* C3: in every returned path every topic, the target included, has each of
\* its direct prerequisites at mastery >= 0.9 or earlier in the same path.
C3_PrerequisitesFirst ==
  PathsReturned =>
    \A n \in 1..Len(lastCall.result) :
      LET path == lastCall.result[n].topics
      IN  \A k \in 1..Len(path) :
            LET prereqs == getTopicById(path[k]).prerequisites
            IN  \A i \in 1..Len(prereqs) :
                  MasteredOrEarlier(path, k, prereqs[i].topicId)

\* a path holds a topic behind one of its unmastered prerequisites
C3_Witness ==
  /\ PathsReturned
  /\ \E n \in 1..Len(lastCall.result) :
       LET path == lastCall.result[n].topics
       IN  \E k \in 1..Len(path) :
             LET prereqs == getTopicById(path[k]).prerequisites
             IN  \E i \in 1..Len(prereqs) :
                   /\ Below(getTopicMastery(topicMastery, prereqs[i].topicId), 90)
                   /\ \E j \in 1..(k - 1) : path[j] = prereqs[i].topicId

\* C4: for every strategy and budget, the estimated times of the non-target
\* topics of the path sum to at most availableTime.
C4_WithinBudget ==
  PathsReturned =>
    \A n \in 1..Len(lastCall.result) :
      NonTargetTime(lastCall.result[n].topics, lastCall.targetTopicId, 1)
        <= lastCall.availableTime

\* a path whose prerequisites use the budget up, so that an unmastered
\* direct prerequisite of the target had to stay out
C4_Witness ==
  /\ PathsReturned
  /\ lastCall.availableTime > 0
  /\ \E n \in 1..Len(lastCall.result) :
       LET path == lastCall.result[n].topics
           prereqs == getTopicById(lastCall.targetTopicId).prerequisites
       IN  /\ Len(path) >= 2
           /\ NonTargetTime(path, lastCall.targetTopicId, 1)
                = lastCall.availableTime
           /\ \E i \in 1..Len(prereqs) :
                /\ Below(getTopicMastery(topicMastery, prereqs[i].topicId), 90)
                /\ ~InSeq(prereqs[i].topicId, path)

\* C5: the target is in the path if and only if each of its direct
\* prerequisites has mastery >= 0.9 or is in the path, whether or not the
\* target's own time still fits the budget.
C5_TargetIffPrerequisitesMet ==
  PathsReturned =>
    \A n \in 1..Len(lastCall.result) :
      LET path == lastCall.result[n].topics
          prereqs == getTopicById(lastCall.targetTopicId).prerequisites
      IN  InSeq(lastCall.targetTopicId, path)
            <=> \A i \in 1..Len(prereqs) :
                   \/ AtLeast(getTopicMastery(topicMastery, prereqs[i].topicId), 90)
                   \/ InSeq(prereqs[i].topicId, path)

\* the target closes a path whose other topics leave too little time for it
C5_Witness ==
  /\ PathsReturned
  /\ \E n \in 1..Len(lastCall.result) :
       LET path == lastCall.result[n].topics
       IN  /\ Len(path) >= 2
           /\ path[Len(path)] = lastCall.targetTopicId
           /\ NonTargetTime(path, lastCall.targetTopicId, 1)
                + getTopicById(lastCall.targetTopicId).estimatedTime
                > lastCall.availableTime

\* C6: for every known target, the target without prerequisites included,
\* the confidence of each returned path is a number in [0.1, 1].
C6_ConfidenceInRange ==
  PathsReturned =>
    \A n \in 1..Len(lastCall.result) :
      /\ ~lastCall.result[n].confidence.nan
      /\ lastCall.result[n].confidence.v \in (ConfUnit \div 10)..ConfUnit

\* C7: generateLearningPaths returns exactly three paths, in the order
\* fastest, mostThorough, examFocused, for a known target, and the empty
\* list for an unknown target.
C7_ThreePathsOrNone ==
  PathsReturned =>
    IF lastCall.targetTopicId \in TopicIds
      THEN /\ Len(lastCall.result) = 3
           /\ lastCall.result[1].strategy = "fastest"
           /\ lastCall.result[2].strategy = "mostThorough"
           /\ lastCall.result[3].strategy = "examFocused"
      ELSE lastCall.result = << >>

\* three paths for a known target, the first two with different topics
C7_Witness ==
  /\ PathsReturned
  /\ lastCall.targetTopicId \in TopicIds
  /\ Len(lastCall.result) = 3
  /\ lastCall.result[1].topics # lastCall.result[2].topics

\* the weights of all prerequisite edges of a topic, in tenths
RECURSIVE AllWeight(_, _)
AllWeight(prereqs, i) ==
  IF i > Len(prereqs) THEN 0
  ELSE prereqs[i].weight + AllWeight(prereqs, i + 1)

\* gap * weight over the prerequisites whose gap exceeds 0.05
RECURSIVE UnmetGapSum(_, _)
UnmetGapSum(prereqs, i) ==
  IF i > Len(prereqs) THEN 0
  ELSE LET m == getTopicMastery(topicMastery, prereqs[i].topicId)
           gap == Gap(prereqs[i].requiredMastery, m)
       IN  (IF Above(gap, 5) THEN gap.dec * prereqs[i].weight ELSE 0)
           + UnmetGapSum(prereqs, i + 1)

\* C8: for a known topic readiness = 1 - totalReadinessImpact, both in [0,1],
\* with totalReadinessImpact = min(1, weightedGapSum / totalWeight) when the
\* prerequisites have positive total weight and 0 otherwise; for an unknown
\* topic the result is null.
C8_ReadinessIsOneMinusImpact ==
  lastCall.op = "analyzeTopicReadiness" =>
    IF lastCall.topicId \notin TopicIds THEN lastCall.result = Null
    ELSE LET r == lastCall.result.readiness
             t == lastCall.result.totalReadinessImpact
             prereqs == getTopicById(lastCall.topicId).prerequisites
             w == AllWeight(prereqs, 1)
             g == UnmetGapSum(prereqs, 1)
         IN  /\ r.den = t.den /\ t.den > 0
             /\ r.num + t.num = t.den
             /\ r.num \in 0..r.den
             /\ t.num \in 0..t.den
             /\ IF w > 0
                  THEN t.num * (100 * w)
                         = (IF g > 100 * w THEN 100 * w ELSE g) * t.den
                  ELSE t.num = 0

\* a readiness strictly between 0 and 1 for a topic of which one
\* prerequisite is met and another is not
C8_Witness ==
  /\ lastCall.op = "analyzeTopicReadiness"
  /\ lastCall.topicId \in TopicIds
  /\ lastCall.result.readiness.num > 0
  /\ lastCall.result.readiness.num < lastCall.result.readiness.den
  /\ Len(lastCall.result.missingPrerequisites) = 1
  /\ Len(getTopicById(lastCall.topicId).prerequisites) = 2

\* C9: the three counts of getProgress are non-negative and sum to the
\* number of topics in the catalog.
C9_CountsSumToTotal ==
  lastCall.op = "getProgress" =>
    /\ lastCall.result.mastered >= 0
    /\ lastCall.result.inProgress >= 0
    /\ lastCall.result.notStarted >= 0
    /\ lastCall.result.mastered + lastCall.result.inProgress
         + lastCall.result.notStarted = Len(topics)

\* getProgress returned a count above zero in each of the three classes
C9_Witness ==
  /\ lastCall.op = "getProgress"
  /\ lastCall.result.mastered > 0
  /\ lastCall.result.inProgress > 0
  /\ lastCall.result.notStarted > 0

\* C10: getProgress counts mastery >= 0.8 as mastered, mastery > 0 and < 0.8
\* as in progress, and only mastery = 0 as not started.
C10_ClassifiedByThresholds ==
  lastCall.op = "getProgress" =>
    /\ lastCall.result.mastered =
         Cardinality({t \in TopicIds :
                        AtLeast(getTopicMastery(topicMastery, t), 80)})
    /\ lastCall.result.inProgress =
         Cardinality({t \in TopicIds :
                        /\ Above(getTopicMastery(topicMastery, t), 0)
                        /\ Below(getTopicMastery(topicMastery, t), 80)})
    /\ lastCall.result.notStarted =
         Cardinality({t \in TopicIds :
                        getTopicMastery(topicMastery, t).bin = Double(0)})

\* C14: a response moves the mastery of a required, not related topic by +0.1
\* or -0.05, so 8 consecutive correct responses from mastery 0 give 0.8.
C14_EightCorrectGiveEightTenths ==
  (userResponses = 8 /\ topicMastery["basic_arithmetic"].dec = 80) =>
    topicMastery["basic_arithmetic"].bin = Double(80)

\* C15: an id that is not in the catalog is ignored by processResponse, and
\* getTopicMastery of it still returns 0.
C15_UnknownIdsIgnored ==
  /\ topicMastery[UnknownId] = Absent
  /\ (lastCall.op = "getTopicMastery" /\ lastCall.topicId = UnknownId) =>
       lastCall.result = Zero

\* topicId is named under relatedTopics and not under requiredTopics
RelatedOnly(problem, topicId) ==
  /\ InSeq(topicId, problem.relatedTopics)
  /\ ~InSeq(topicId, problem.requiredTopics)

\* C16: processResponse moves the mastery of a known topic that is related and
\* not required by +0.02 when correct and -0.01 when incorrect, within [0,1],
\* and leaves its last-practised time alone.
C16_RelatedOnlyStep ==
  [][ userResponses' # userResponses =>
        \A t \in TopicIds :
          RelatedOnly(problems[lastCall'.problem], t) =>
            /\ topicMastery'[t].dec =
                 IF lastCall'.isCorrect
                   THEN Min(100, topicMastery[t].dec + 2)
                   ELSE Max(0, topicMastery[t].dec - 1)
            /\ topicLastPracticed'[t] = topicLastPracticed[t] ]_vars

\* a correct rel1 response has raised basic_arithmetic from 0.1 to 0.12
C16_Witness ==
  /\ lastCall.op = "processResponse"
  /\ problems[lastCall.problem].id = "rel1"
  /\ lastCall.isCorrect
  /\ userResponses = 2
  /\ topicMastery["basic_arithmetic"].dec = 12

\* the operations other than processResponse
ReadOperations ==
  {"getTopicMastery", "analyzeTopicReadiness", "generateLearningPaths",
   "identifyKnowledgeGaps", "getRecommendedProblems", "getRecommendedTopics",
   "getProgress"}

\* C11: processResponse is the only operation that changes mastery,
\* last-practised times, next-review times or review counts; the seven read
\* operations leave all four maps as they were.
C11_ReadsLeaveStore ==
  [][ lastCall'.op \in ReadOperations =>
        /\ topicMastery' = topicMastery
        /\ topicLastPracticed' = topicLastPracticed
        /\ topicNextReview' = topicNextReview
        /\ topicReviewCount' = topicReviewCount ]_vars

\* problems were recommended from a store that holds scheduled reviews
C11_Witness ==
  /\ lastCall.op = "getRecommendedProblems"
  /\ Len(lastCall.result) > 0
  /\ Len(reviewKeys) > 0
  /\ topicMastery[UnknownId] = Absent

BothAtZero ==
  /\ lastCall.op = "analyzeTopicReadiness"
  /\ lastCall.topicId = "fractions"
  /\ getTopicMastery(topicMastery, "fractions") = Zero
  /\ getTopicMastery(topicMastery, "basic_arithmetic") = Zero

\* the one missing prerequisite of the scenario: basic_arithmetic, gap 0.7
OneEntryWithGapSevenTenths ==
  LET missing == lastCall.result.missingPrerequisites
  IN  /\ Len(missing) = 1
      /\ missing[1].topicId = "basic_arithmetic"
      /\ missing[1].gap = Mastery(70, Double(70))

\* C13 as stated: in the scenario readiness is 0 and the only missing
\* prerequisite is basic_arithmetic with gap 0.7.
C13_ReadinessZero ==
  BothAtZero =>
    /\ lastCall.result.readiness.num = 0
    /\ OneEntryWithGapSevenTenths

\* C13, amended: in the scenario readiness is 0.3 = 1 - (0.7 * 0.8) / 0.8 and
\* the only missing prerequisite is basic_arithmetic with gap 0.7.
C13_ReadinessThreeTenths ==
  BothAtZero =>
    /\ 10 * lastCall.result.readiness.num = 3 * lastCall.result.readiness.den
    /\ OneEntryWithGapSevenTenths

\* the scenario's call was made on a store where another topic was practised
C13_Witness ==
  /\ BothAtZero
  /\ lastCall.result # Null
  /\ topicMastery["basic_algebra"].dec = 50

\* the prerequisites of a topic whose gap exceeds 0.05, in catalog order
Unmet(prereqs) ==
  SelectSeq(prereqs, LAMBDA p :
    FlLess(Double(5),
           Gap(p.requiredMastery,
               getTopicMastery(topicMastery, p.topicId)).bin))

\* C17: totalWeight sums the weights of all prerequisites of the topic, also
\* of those without a gap; missingPrerequisites holds exactly the
\* prerequisites whose gap max(0, requiredMastery - mastery) exceeds 0.05,
\* and only they add gap * weight to the weighted gap sum.
C17_MissingAreTheGapsAboveNoise ==
  (lastCall.op = "analyzeTopicReadiness" /\ lastCall.topicId \in TopicIds) =>
    LET prereqs == getTopicById(lastCall.topicId).prerequisites
        missing == lastCall.result.missingPrerequisites
        impact == lastCall.result.totalReadinessImpact
        unmet == Unmet(prereqs)
    IN  /\ Len(missing) = Len(unmet)
        /\ \A i \in 1..Len(missing) :
             /\ missing[i].topicId = unmet[i].topicId
             /\ missing[i].weight = unmet[i].weight
             /\ missing[i].gap.dec =
                  unmet[i].requiredMastery
                    - getTopicMastery(topicMastery, unmet[i].topicId).dec
        /\ Len(prereqs) > 0 =>
             /\ impact.den = 100 * AllWeight(prereqs, 1)
             /\ impact.num =
                  Min(impact.den,
                      SumSeq([i \in 1..Len(missing) |->
                                missing[i].gap.dec * missing[i].weight], 1))

\* of two prerequisites one is missing and the other is within rounding of
\* its required mastery: its weight counts, its gap does not
C17_Witness ==
  /\ lastCall.op = "analyzeTopicReadiness"
  /\ lastCall.topicId = "basic_algebra"
  /\ topicMastery["basic_arithmetic"].dec = 80
  /\ Below(topicMastery["basic_arithmetic"], 80)
  /\ Len(lastCall.result.missingPrerequisites) = 1
  /\ lastCall.result.missingPrerequisites[1].topicId = "fractions"
  /\ lastCall.result.totalReadinessImpact.den = 1600

GapsReturned == lastCall.op = "identifyKnowledgeGaps"

\* the current mastery of the topic that entry k of the result flags
FlaggedMastery(k) == getTopicMastery(topicMastery, lastCall.result[k].topic.id)

\* C18: the list identifyKnowledgeGaps returns is in non-decreasing order of
\* the current mastery of the flagged topics.
C18_GapsAscendingByMastery ==
  GapsReturned =>
    \A k \in 1..(Len(lastCall.result) - 1) :
       NotAbove(FlaggedMastery(k), FlaggedMastery(k + 1))

\* the sort moved an entry: the problem's first required topic is flagged,
\* and the list opens with a topic of lower mastery
C18_Witness ==
  /\ GapsReturned
  /\ Len(lastCall.result) >= 3
  /\ lastCall.result[1].topic.id
       # problems[lastCall.problem].requiredTopics[1]
  /\ \E k \in 1..Len(lastCall.result) :
       /\ lastCall.result[k].topic.id
            = problems[lastCall.problem].requiredTopics[1]
       /\ FlLess(FlaggedMastery(1).bin, FlaggedMastery(k).bin)

\* how often requiredTopics names topicId
Occurrences(req, topicId) == Cardinality({i \in 1..Len(req) : req[i] = topicId})

LowMasteryEntries(topicId) ==
  SelectSeq(lastCall.result, LAMBDA g :
    g.reason.kind = "Low mastery" /\ g.topic.id = topicId)

PrerequisiteEntries(topicId) ==
  SelectSeq(lastCall.result, LAMBDA g :
    g.reason.kind = "Prerequisite for" /\ g.reason.name = topicId)

\* entry g names a missing prerequisite of topicId that no other missing
\* prerequisite of topicId exceeds in weight * gap
NamesMostCritical(g, topicId) ==
  LET missing ==
        analyzeTopicReadiness(topicMastery, topicId).missingPrerequisites
  IN  \E i \in 1..Len(missing) :
        /\ g.topic.id = missing[i].topicId
        /\ g.reason.weight = 10 * missing[i].weight
        /\ g.reason.gap = missing[i].gap.dec
        /\ \A j \in 1..Len(missing) :
             missing[j].weight * missing[j].gap.dec
               <= missing[i].weight * missing[i].gap.dec

\* C19: identifyKnowledgeGaps reports "Low mastery (p%)" for a known required
\* topic exactly when its mastery is below 0.3, and for each required topic
\* at most one prerequisite entry, naming the missing prerequisite with the
\* highest weight * gap.
C19_LowMasteryAndMostCritical ==
  GapsReturned =>
    LET req == problems[lastCall.problem].requiredTopics
    IN  \A t \in TopicIds :
          LET low == LowMasteryEntries(t)
              pre == PrerequisiteEntries(t)
              m == getTopicMastery(topicMastery, t)
          IN  /\ Len(low) = IF FlLess(m.bin, Double(30))
                              THEN Occurrences(req, t) ELSE 0
              /\ \A k \in 1..Len(low) : low[k].reason.percent = m.dec
              /\ Len(pre) <= Occurrences(req, t)
              /\ \A k \in 1..Len(pre) : NamesMostCritical(pre[k], t)

\* word_problems is reported with "Low mastery (0%)" and with its second
\* prerequisite basic_algebra (0.7 * 0.6), which outweighs the first,
\* basic_arithmetic (0.8 * 0.4)
C19_Witness ==
  /\ GapsReturned
  /\ problems[lastCall.problem].id = "word4"
  /\ Len(LowMasteryEntries("word_problems")) = 1
  /\ LowMasteryEntries("word_problems")[1].reason.percent = 0
  /\ Len(PrerequisiteEntries("word_problems")) = 1
  /\ PrerequisiteEntries("word_problems")[1].topic.id = "basic_algebra"
  /\ Len(analyzeTopicReadiness(topicMastery, "word_problems")
           .missingPrerequisites) = 2
  /\ topicMastery["basic_arithmetic"].dec = 30

\* C20: getRecommendedTopics(limit, target) for a known target with missing
\* prerequisites returns those prerequisites, at most limit of them, in
\* descending order of weight * gap.
C20_TargetGetsItsMissingPrerequisites ==
  (/\ lastCall.op = "getRecommendedTopics"
   /\ lastCall.targetTopicId \in TopicIds
   /\ Len(analyzeTopicReadiness(topicMastery, lastCall.targetTopicId)
            .missingPrerequisites) > 0) =>
    LET ranked ==
          sortByWeightedGap(
            analyzeTopicReadiness(topicMastery, lastCall.targetTopicId)
              .missingPrerequisites)
    IN  /\ Len(lastCall.result) = Min(lastCall.limit, Len(ranked))
        /\ \A k \in 1..Len(lastCall.result) :
             lastCall.result[k].topic.id = ranked[k].topicId

\* the score the contract gives a problem with the gaps found for it
DifficultyWeight(problem) ==
  CASE problem.difficulty = "easy" -> 1
    [] problem.difficulty = "medium" -> 2
    [] problem.difficulty = "hard" -> 3

ContractScore(problem, gaps) == Len(gaps) * DifficultyWeight(problem)

\* the contract scores of the catalog problems in the current state, in
\* catalog order; 0 for a problem without a gap
CatalogScores ==
  [i \in 1..Len(catalogProblems) |->
     ContractScore(catalogProblems[i],
                   identifyKnowledgeGaps(Current, catalogProblems[i], now))]

ProblemsReturned == lastCall.op = "getRecommendedProblems"

ReturnedScores ==
  [k \in 1..Len(lastCall.result) |->
     ContractScore(lastCall.result[k].problem, lastCall.result[k].reason)]

\* C21: getRecommendedProblems(limit) returns at most limit problems, each
\* with at least one knowledge gap, in order of non-increasing score
\* gapCount * difficultyWeight (easy 1, medium 2, hard 3), and no problem
\* that is left out scores strictly higher than a returned one: every
\* catalog problem scoring above the last returned one is returned, and a
\* result shorter than limit holds every problem that has a gap.
C21_TopProblemsByScore ==
  ProblemsReturned =>
    Then(SelectSeq(CatalogScores, LAMBDA v : TRUE), LAMBDA all :
    Then(SelectSeq(ReturnedScores, LAMBDA v : TRUE), LAMBDA got :
      /\ Len(got) <= lastCall.limit
      /\ \A k \in 1..Len(got) :
           /\ Len(lastCall.result[k].reason) >= 1
           /\ InSeq(lastCall.result[k].problem, catalogProblems)
           /\ lastCall.result[k].reason
                = identifyKnowledgeGaps(Current, lastCall.result[k].problem, now)
      /\ \A k \in 1..(Len(got) - 1) : got[k] >= got[k + 1]
      /\ Len(got) < lastCall.limit =>
           Len(got) = Cardinality({i \in 1..Len(all) : all[i] > 0})
      /\ Len(got) > 0 =>
           \A v \in {all[i] : i \in 1..Len(all)} :
             v > got[Len(got)] =>
               Cardinality({i \in 1..Len(all) : all[i] = v})
                 = Cardinality({k \in 1..Len(got) : got[k] = v})))

\* a full result with unequal scores, while more problems than fit have a
\* gap and an easier problem earlier in the catalog was passed over
C21_Witness ==
  /\ ProblemsReturned
  /\ Len(lastCall.result) = lastCall.limit
  /\ ReturnedScores[1] > ReturnedScores[Len(lastCall.result)]
  /\ Cardinality({i \in 1..Len(catalogProblems) : CatalogScores[i] > 0})
       > lastCall.limit
  /\ CatalogScores[1] > 0
  /\ lastCall.result[1].problem # catalogProblems[1]

\* the ids a topic names as prerequisites
DirectPrereqIds(id) ==
  { getTopicById(id).prerequisites[i].topicId :
      i \in 1..(IF id \in TopicIds THEN Len(getTopicById(id).prerequisites)
                ELSE 0) }

\* the least set that holds ids and the prerequisites of its members
RECURSIVE ClosedUnderPrereqs(_)
ClosedUnderPrereqs(ids) ==
  LET more == ids \cup UNION { DirectPrereqIds(id) : id \in ids }
  IN  IF more = ids THEN ids ELSE ClosedUnderPrereqs(more)

\* the transitive prerequisites of a topic
TransitivePrereqIds(targetTopicId) ==
  ClosedUnderPrereqs(DirectPrereqIds(targetTopicId)) \ {targetTopicId}

\* the transitive prerequisites of the target with mastery < 0.9
CandidatePool ==
  { id \in TransitivePrereqIds(lastCall.targetTopicId) :
      Below(getTopicMastery(topicMastery, id), 90) }

TargetFits ==
  TimeOf(getTopicById(lastCall.targetTopicId)) <= lastCall.availableTime

RECURSIVE TotalTime(_, _)
TotalTime(path, k) ==
  IF k > Len(path) THEN 0
  ELSE (IF getTopicById(path[k]).estimatedTime = 0 THEN 30
        ELSE getTopicById(path[k]).estimatedTime)
       + TotalTime(path, k + 1)

\* C23: for every path returned by generateLearningPaths, estimatedTime is the
\* sum of the estimated times of all topics listed in the path, the target
\* included when it is present.
C23_EstimatedTimeIsTotal ==
  PathsReturned =>
    \A n \in 1..Len(lastCall.result) :
      lastCall.result[n].estimatedTime = TotalTime(lastCall.result[n].topics, 1)

\* the estimated times of a set of topics, 30 where a topic has none
RECURSIVE TimeOfAll(_)
TimeOfAll(ids) ==
  IF ids = {} THEN 0
  ELSE LET id == CHOOSE x \in ids : TRUE
       IN  (IF getTopicById(id).estimatedTime = 0 THEN 30
            ELSE getTopicById(id).estimatedTime)
           + TimeOfAll(ids \ {id})

\* availableTime covers every transitive prerequisite of the target and the
\* target itself
AmpleTime ==
  /\ lastCall.targetTopicId \in TopicIds
  /\ lastCall.availableTime
       >= TimeOfAll(TransitivePrereqIds(lastCall.targetTopicId)
                    \cup {lastCall.targetTopicId})

\* C24: when availableTime is at least the estimated times of all transitive
\* prerequisites of the target plus the target's, the mostThorough path
\* contains every transitive prerequisite whose mastery is below 0.9.
C24_ThoroughCoversThePool ==
  (PathsReturned /\ AmpleTime) =>
    \A n \in 1..Len(lastCall.result) :
      lastCall.result[n].strategy = "mostThorough" =>
        \A id \in CandidatePool : InSeq(id, lastCall.result[n].topics)

\* the strategy bases 0.85, 0.95 and 0.8, in units of 1 / ConfUnit
StrategyBase(strategy) ==
  CASE strategy = "fastest" -> (85 * ConfUnit) \div 100
    [] strategy = "mostThorough" -> (95 * ConfUnit) \div 100
    [] strategy = "examFocused" -> (80 * ConfUnit) \div 100

\* C25: the confidence penalty counts only the unmastered transitive
\* prerequisites that are not in the path: when every transitive prerequisite
\* of the target has mastery >= 0.9 or is in the path, the path's confidence
\* is the strategy base (fastest 0.85, mostThorough 0.95, examFocused 0.8).
\* Stated for the targets that have a prerequisite.
C25_NoPenaltyForMastered ==
  (PathsReturned /\ TransitivePrereqIds(lastCall.targetTopicId) # {}) =>
    \A n \in 1..Len(lastCall.result) :
      (\A id \in TransitivePrereqIds(lastCall.targetTopicId) :
          \/ AtLeast(getTopicMastery(topicMastery, id), 90)
          \/ InSeq(id, lastCall.result[n].topics))
        => lastCall.result[n].confidence
             = Num(StrategyBase(lastCall.result[n].strategy))

\* C26: every path returned by generateLearningPaths is well formed: no topic
\* id occurs twice, every element is the target or a transitive prerequisite
\* of the target with mastery < 0.9, and the target, when present, is last.
C26_PathsWellFormed ==
  PathsReturned =>
    \A n \in 1..Len(lastCall.result) :
      LET path == lastCall.result[n].topics
      IN  /\ \A j, k \in 1..Len(path) : path[j] = path[k] => j = k
          /\ \A k \in 1..Len(path) :
               \/ path[k] = lastCall.targetTopicId
               \/ path[k] \in CandidatePool
          /\ \A k \in 1..Len(path) :
               path[k] = lastCall.targetTopicId => k = Len(path)

\* a path of several candidates closed by the target, while a mastered
\* transitive prerequisite stays out
C26_Witness ==
  /\ PathsReturned
  /\ \E n \in 1..Len(lastCall.result) :
       LET path == lastCall.result[n].topics
       IN  /\ Len(path) >= 3
           /\ path[Len(path)] = lastCall.targetTopicId
           /\ \E id \in TransitivePrereqIds(lastCall.targetTopicId) :
                /\ AtLeast(getTopicMastery(topicMastery, id), 90)
                /\ ~InSeq(id, path)

\* C27: when availableTime is at least the estimated times of all transitive
\* prerequisites of the target plus the target's, the path of every strategy
\* ends with the target.
C27_TargetReachedWithAmpleTime ==
  (PathsReturned /\ AmpleTime) =>
    \A n \in 1..Len(lastCall.result) :
      LET path == lastCall.result[n].topics
      IN  /\ Len(path) >= 1
          /\ path[Len(path)] = lastCall.targetTopicId

\* a <= b on exact fractions with positive denominators
FracLeq(a, b) == a.num * b.den <= b.num * a.den

\* the readiness analyzeTopicReadiness returns for a catalog topic
ReadinessOf(tm, topicId) == analyzeTopicReadiness(tm, topicId).readiness

\* C28: a correct processResponse never decreases, and an incorrect one never
\* increases, the readiness analyzeTopicReadiness returns for any topic of
\* the catalog.
C28_ReadinessMonotone ==
  [][ userResponses' # userResponses =>
        \A t \in TopicIds :
          IF lastCall'.isCorrect
            THEN FracLeq(ReadinessOf(topicMastery, t),
                         ReadinessOf(topicMastery', t))
            ELSE FracLeq(ReadinessOf(topicMastery', t),
                         ReadinessOf(topicMastery, t)) ]_vars

\* a correct response has brought basic_arithmetic within 0.05 of the 0.6
\* that geometry requires, so the cut-off drops the remaining gap and
\* geometry's readiness is 1
C28_Witness ==
  /\ lastCall.op = "processResponse"
  /\ lastCall.isCorrect
  /\ topicMastery["basic_arithmetic"] # Absent
  /\ topicMastery["basic_arithmetic"].dec \in 55..59
  /\ FracLeq(Frac(1, 1), ReadinessOf(topicMastery, "geometry"))

TopicsReturned == lastCall.op = "getRecommendedTopics"

\* C29: getRecommendedTopics(limit) returns at most limit entries and never
\* the same topic twice, also when a topic is both due for review and below
\* 0.8 mastery.
C29_AtMostLimitAndDistinct ==
  TopicsReturned =>
    /\ Len(lastCall.result) <= lastCall.limit
    /\ \A j, k \in 1..Len(lastCall.result) :
         lastCall.result[j].topic = lastCall.result[k].topic => j = k

\* the ids a topic of a catalog names as prerequisites
PrereqIdsIn(catalog, id) ==
  UNION { { catalog[i].prerequisites[k].topicId :
              k \in 1..Len(catalog[i].prerequisites) } :
          i \in { j \in 1..Len(catalog) : catalog[j].id = id } }

\* the least set that holds ids and the prerequisites of its members
RECURSIVE ClosedIn(_, _)
ClosedIn(catalog, ids) ==
  LET more == ids \cup UNION { PrereqIdsIn(catalog, id) : id \in ids }
  IN  IF more = ids THEN ids ELSE ClosedIn(catalog, more)

Walking ==
  /\ lastCall.op = "collectAllPrerequisiteIds"
  /\ lastCall.pc = "while"

Walked ==
  /\ lastCall.op = "collectAllPrerequisiteIds"
  /\ lastCall.pc = "done"

\* the result names each id reachable over prerequisite edges from the
\* target once, and not the target
EachPrerequisiteOnce ==
  LET result == lastCall.result
  IN  /\ \A j, k \in 1..Len(result) : result[j] = result[k] => j = k
      /\ { result[k] : k \in 1..Len(result) }
           = ClosedIn(lastCall.catalog,
                      PrereqIdsIn(lastCall.catalog, lastCall.targetTopicId))
               \ {lastCall.targetTopicId}

\* C30: the transitive-prerequisite collection of generateLearningPaths
\* terminates for every topic graph, also one whose prerequisite edges form
\* a cycle or name unknown ids, and returns each reachable prerequisite id
\* exactly once and never the target itself.
C30_WalkTerminatesWithEachPrerequisiteOnce ==
  /\ [](Walked => EachPrerequisiteOnce)
  /\ Walking ~> Walked

\* the walk has returned from a catalog in which the target lies on a cycle
\* of two topics and an unknown id is named
C30_Witness ==
  /\ Walked
  /\ lastCall.targetTopicId = "A"
  /\ "B" \in PrereqIdsIn(lastCall.catalog, "A")
  /\ "A" \in PrereqIdsIn(lastCall.catalog, "B")
  /\ UnknownId \in PrereqIdsIn(lastCall.catalog, "B")
  /\ lastCall.result = <<UnknownId, "B">>

====
